---- MODULE Spec2Model ----
(***************************************************************************)
(* A model of grpo_vllm/grpo_trainer.py (class GRPOTrainer): the wall-clock *)
(* checkpoint scheduler (update_model / get_last_time), the loss step      *)
(* (compute_loss) and the metrics accumulator (log).                       *)
(*                                                                         *)
(* Time is the value time.time() returns, in whole seconds, counted from   *)
(* the start of the model's run; it never decreases.  One update_model     *)
(* call reads the clock several times; the model reads it once.            *)
(***************************************************************************)
EXTENDS Integers, Sequences, FiniteSets, TLC

\* ------------------------------------------------------------- bounds
\* The clock of SpecSched stops at MaxTime.
MaxTime == 22
\* The clock of the other specifications stops at EnvMaxTime.
EnvMaxTime == 7
\* Worker processes of the data-parallel run (SpecDP).
NumWorkers == 2

Workers == 0 .. (NumWorkers - 1)
\* The configured save interval self.args.int_time, in seconds.
IntTimes == {3, 10}
EnvIntTimes == {2, 3}

VARIABLES
    now,               \* time.time()
    int_time,          \* self.args.int_time
    peft,              \* self.peft_config is not None
    start_train_time,  \* per worker: [has |-> hasattr(self, 'start_train_time'), val |-> its value]
    start_save,        \* per worker: hasattr(self, 'start_save')
    disk,              \* the probed artifacts of the output directory: file -> [exists, mtime]
    writes,            \* history: the [w, file] writes performed under the output directory
    lastSched,         \* observation of the most recent update_model call
    call_parity,       \* history: the number of update_model calls made, modulo 2
    lastSave,          \* history: [has, t] of the latest write of the probed artifact by a save
    external,          \* history: the probed artifact was written or deleted from outside
    restarted,         \* history: the process was restarted, and what was on disk then
    scen,              \* history: how far the run follows the calls at t = 0, 11, 15, 22
    beta,              \* self.beta, in thousandths
    batch,             \* the batch the data loader holds for compute_loss; <<>> leaves it open
    _metrics,          \* self._metrics: name -> list of values (a name is present once recorded)
    pending,           \* history: name -> the values recorded since the last log call
    ret,               \* observation: what the latest compute_loss or log call returned or raised
    op_parity          \* history: the number of compute_loss and log calls made, modulo 2

cfgVars   == <<int_time, peft, beta, batch>>
schedVars == <<start_train_time, start_save, disk, writes, lastSched, call_parity, lastSave>>
histVars  == <<external, restarted, scen>>
stepVars  == <<_metrics, pending, ret, op_parity>>

vars == <<now, cfgVars, schedVars, histVars, stepVars>>

\* ------------------------------------------------------- the file system
\* The two files get_last_time may probe.  The tokenizer files, whose
\* modification times are never read, appear in `writes` only.
Files == {"config.json", "lora/adapter_config.json"}
NoFile == [exists |-> FALSE, mtime |-> 0]
File(t) == [exists |-> TRUE, mtime |-> t]

\* get_last_time: the probed artifact.
check_path(pf) == IF ~pf THEN "config.json" ELSE "lora/adapter_config.json"

get_last_time_absent_now(d, pf, t) ==
    IF d[check_path(pf)].exists THEN d[check_path(pf)].mtime ELSE t

get_last_time_zero(d, pf, t) == 0

\* get_last_time: the artifact's mtime, 0.0 when it does not exist.  (t, the
\* current time, is not read.)
get_last_time(d, pf, t) ==
    IF d[check_path(pf)].exists THEN d[check_path(pf)].mtime ELSE 0

\* ------------------------------------------------------- the scheduler
first_cond_ge(t, start, I, has_save) == (t - start >= I) /\ ~has_save

\* update_model, the `if`: first save of this process.
first_cond(t, start, I, has_save) == (t - start > I) /\ ~has_save

\* update_model, the `elif`: a later save.
next_cond(t, last_time, I, has_save) == (t - last_time > I) /\ has_save

\* The branch update_model takes.
branch(t, start, last_time, I, has_save) ==
    IF first_cond(t, start, I, has_save) THEN "first"
    ELSE IF next_cond(t, last_time, I, has_save) THEN "next"
    ELSE "none"

\* The primary worker (is_world_process_zero / args.should_save).
is_primary(w) == w = 0

\* What a persist failure leaves: which of the two persist calls were made,
\* whether the probed artifact was written, whether the tokenizer files were
\* written, and whether the exception left update_model.  A save_model that
\* raises has written either nothing or the probed file already
\* ("save_model_partial").
FailModes == {"none", "save_model", "save_model_partial", "save_pretrained"}

\* save_model(...) then tokenizer.save_pretrained(...), no try/except: the
\* first call that raises ends update_model.
persist(fail) ==
    CASE fail = "none" ->
           [attempts |-> <<"save_model", "save_pretrained">>,
            artifact |-> TRUE, tokenizer |-> TRUE, raised |-> FALSE]
      [] fail = "save_model" ->
           [attempts |-> <<"save_model">>,
            artifact |-> FALSE, tokenizer |-> FALSE, raised |-> TRUE]
      [] fail = "save_model_partial" ->
           [attempts |-> <<"save_model">>,
            artifact |-> TRUE, tokenizer |-> FALSE, raised |-> TRUE]
      [] fail = "save_pretrained" ->
           [attempts |-> <<"save_model", "save_pretrained">>,
            artifact |-> TRUE, tokenizer |-> FALSE, raised |-> TRUE]

NoPersist == [attempts |-> <<>>, artifact |-> FALSE, tokenizer |-> FALSE, raised |-> FALSE]

\* Trainer.save_model writes only on the worker whose args.should_save holds.
save_model_writes(w) == is_primary(w)

\* tokenizer.save_pretrained(output_dir) is called by update_model itself, on
\* whichever worker runs it.
save_pretrained_writes(w) == TRUE

\* The files one update_model call of worker w writes.
written(w, pf, p) ==
    (IF p.artifact /\ save_model_writes(w) THEN {check_path(pf)} ELSE {})
    \cup (IF p.tokenizer /\ save_pretrained_writes(w) THEN {"tokenizer_config.json"} ELSE {})

NoSched ==
    [w |-> 0, idle |-> TRUE, absent |-> TRUE, recent |-> FALSE, prevHas |-> FALSE,
     branch |-> "none", fail |-> "none", persist |-> NoPersist, stamped |-> FALSE]

\* How far a run follows the scenario "interval 10, calls at t = 0, 11, 15, 22":
\* scen.n calls of it were made, scen.saved tells which of them saved; any
\* other call, and any persist failure, leaves the scenario (n = 9 keeps no record).
ScenTimes == <<0, 11, 15, 22>>
ScenOff == [n |-> 9, saved |-> <<>>]
ScenNext(sc, t, I, saved, raised) ==
    IF sc.n < Len(ScenTimes) /\ I = 10 /\ ~raised /\ t = ScenTimes[sc.n + 1]
    THEN [n |-> sc.n + 1, saved |-> Append(sc.saved, saved)]
    ELSE ScenOff

\* update_model on worker w at time now; fail says which persist call raises,
\* should one be made.
update_model(w, fail) ==
    LET start == IF start_train_time[w].has THEN start_train_time[w].val ELSE now
        b     == branch(now, start, get_last_time(disk, peft, now), int_time, start_save[w])
        p     == IF b = "none" THEN NoPersist ELSE persist(fail)
        wr    == written(w, peft, p)
    IN  /\ start_train_time' = [start_train_time EXCEPT ![w] = [has |-> TRUE, val |-> start]]
        /\ start_save' = [start_save EXCEPT ![w] = start_save[w] \/ b = "first"]
        /\ disk' = [f \in Files |-> IF f \in wr THEN File(now) ELSE disk[f]]
        /\ writes' = writes \cup {[w |-> w, file |-> f] : f \in wr}
        /\ lastSave' = IF check_path(peft) \in wr THEN [has |-> TRUE, t |-> now] ELSE lastSave
        /\ call_parity' = 1 - call_parity
        /\ lastSched' = [w |-> w, idle |-> ~start_save[w],
                         absent |-> ~disk[check_path(peft)].exists,
                         recent |-> lastSave.has /\ now - lastSave.t <= int_time,
                         prevHas |-> lastSave.has,
                         branch |-> b, fail |-> IF b = "none" THEN "none" ELSE fail,
                         persist |-> p,
                         stamped |-> check_path(peft) \in wr]

\* ------------------------------------------------------- exact numbers
\* A float is modelled by the exact fraction [num, den], den > 0, in lowest
\* terms; den = 0 is NaN (the value of 0.0 / 0).
RECURSIVE GCD(_, _)
GCD(a, b) == IF b = 0 THEN a ELSE GCD(b, a % b)
Abs(x) == IF x < 0 THEN -x ELSE x
NaN == [num |-> 0, den |-> 0]
IsNaN(x) == x.den = 0
\* n / d as torch computes it for a finite n: NaN for 0 / 0.
Frac(n, d) ==
    IF d = 0 THEN NaN
    ELSE LET g == GCD(Abs(n), Abs(d))
             sg == IF d < 0 THEN -1 ELSE 1
         IN  [num |-> sg * (n \div g), den |-> sg * (d \div g)]
RAdd(x, y) ==
    IF IsNaN(x) \/ IsNaN(y) THEN NaN
    ELSE Frac(x.num * y.den + y.num * x.den, x.den * y.den)
RDivInt(x, n) == IF IsNaN(x) \/ n = 0 THEN NaN ELSE Frac(x.num, x.den * n)
RECURSIVE RSum(_)
RSum(xs) == IF xs = <<>> THEN Frac(0, 1) ELSE RAdd(Head(xs), RSum(Tail(xs)))

\* ------------------------------------------------------------ the batch
\* Token ids: the pad token, the id of the assistant-turn marker, any other token.
Tokens == {"pad", "assistant", "text"}
\* example['advantage'], in thousandths.
Advantages == {-1000, 1000}
\* Per-token log-probabilities the two forward passes yield, in whole nats.
LogPs == {-1, 0}

\* The rows of a left-padded batch of sequence length L: the token ids, the
\* advantage, and the policy's and the reference's log-probabilities of the
\* tokens 2..L.
LeftPadded(L) ==
    {ids \in [1 .. L -> Tokens] :
        /\ ids[L] # "pad"
        /\ \A i \in 1 .. L - 1 : ids[i + 1] = "pad" => ids[i] = "pad"}
Rows(L) ==
    [ids : LeftPadded(L), advantage : Advantages,
     logps : [1 .. L - 1 -> LogPs], ref_logps : [1 .. L - 1 -> LogPs]]
\* The batches the step specification feeds compute_loss: one row of two
\* tokens, advantage 1.0, reference log-probability 0.
StepBatches == {<<r>> : r \in {x \in Rows(2) : x.advantage = 1000 /\ x.ref_logps[1] = 0}}

\* create_prefix_mask(input_ids, assistant_id): every position at or after the
\* first assistant_id; all False for a row without it.
create_prefix_mask(ids, assistant_id) ==
    [i \in 1 .. Len(ids) |-> \E j \in 1 .. i : ids[j] = assistant_id]

\* prefix_mask[:, 1:]
shifted_mask(ids) ==
    LET m == create_prefix_mask(ids, "assistant")
    IN  [i \in 1 .. Len(ids) - 1 |-> m[i + 1]]

\* torch.exp of a whole number of nats, in thousandths.
ExpMilli(x) == CASE x = 0 -> 1000 [] x = 1 -> 2718 [] x = -1 -> 368

\* per_token_kl = exp(ref - logp) - (ref - logp) - 1, in thousandths.
per_token_kl(ref, logp) == ExpMilli(ref - logp) - 1000 * (ref - logp) - 1000

\* per_token_loss = -(exp(logp - logp.detach()) * advantage - beta * kl), in
\* millionths (advantage and beta are in thousandths).
per_token_loss(logp, ref, adv, b) ==
    -(ExpMilli(logp - logp) * adv - b * per_token_kl(ref, logp))

RECURSIVE SumOver(_, _)
SumOver(f, S) ==
    IF S = {} THEN 0 ELSE LET i == CHOOSE i \in S : TRUE IN f[i] + SumOver(f, S \ {i})

\* prefix_mask.sum(dim=1) of one row.
mask_count(row) == Cardinality({i \in DOMAIN shifted_mask(row.ids) : shifted_mask(row.ids)[i]})

\* The masked sum divided by the row's length instead of its mask count.
masked_mean_over_length(x, row) ==
    Frac(SumOver(x, {i \in DOMAIN x : shifted_mask(row.ids)[i]}), Len(x))

\* (x * prefix_mask).sum(dim=1) / prefix_mask.sum(dim=1) of one row.
masked_mean(x, row) ==
    Frac(SumOver(x, {i \in DOMAIN x : shifted_mask(row.ids)[i]}), mask_count(row))

batch_mean(xs) == RDivInt(RSum(xs), Len(xs))

\* loss, line 305, in millionths.
loss_of(inputs, b) ==
    batch_mean([k \in 1 .. Len(inputs) |->
        masked_mean([i \in 1 .. Len(inputs[k].ids) - 1 |->
                        per_token_loss(inputs[k].logps[i], inputs[k].ref_logps[i],
                                       inputs[k].advantage, b)],
                    inputs[k])])

\* completion_length, line 307.
completion_length_of(inputs) ==
    batch_mean([k \in 1 .. Len(inputs) |-> Frac(mask_count(inputs[k]), 1)])

\* mean_kl, line 310, in thousandths.
mean_kl_of(inputs) ==
    batch_mean([k \in 1 .. Len(inputs) |->
        masked_mean([i \in 1 .. Len(inputs[k].ids) - 1 |->
                        per_token_kl(inputs[k].ref_logps[i], inputs[k].logps[i])],
                    inputs[k])])

\* ------------------------------------------------------------ metrics
\* defaultdict(list), no name recorded yet.
NoMetrics == [k \in {} |-> <<>>]
NoRet == [op |-> "none"]

\* self._metrics[name].append(value)
record(m, name, value) ==
    [k \in DOMAIN m \cup {name} |->
        IF k = name THEN Append(IF k \in DOMAIN m THEN m[k] ELSE <<>>, value) ELSE m[k]]

\* sum(val) / len(val)
average(val) == RDivInt(RSum(val), Len(val))

\* {key: sum(val) / len(val) for key, val in self._metrics.items()}
averages(m) == [k \in DOMAIN m |-> average(m[k])]

\* {**logs, **metrics}
merge(logs, metrics) ==
    [k \in DOMAIN logs \cup DOMAIN metrics |->
        IF k \in DOMAIN metrics THEN metrics[k] ELSE logs[k]]

metrics_keep(m) == m

\* self._metrics.clear()
metrics_clear(m) == NoMetrics

\* ------------------------------------------------------------ actions
Tick(maxT) ==
    /\ now < maxT
    /\ now' = now + 1
    /\ UNCHANGED <<cfgVars, schedVars, histVars, stepVars>>

TickSched == Tick(MaxTime)

TickEnv == Tick(EnvMaxTime)

\* A direct call of update_model in the single process.
UpdateModelCall ==
    /\ \E fail \in FailModes : update_model(0, fail)
    /\ scen' = ScenNext(scen, now, int_time, lastSched'.stamped, lastSched'.persist.raised)
    /\ UNCHANGED <<now, cfgVars, external, restarted, stepVars>>

InitCommon ==
    /\ now = 0
    /\ peft \in BOOLEAN
    /\ start_train_time = [w \in Workers |-> [has |-> FALSE, val |-> 0]]
    /\ start_save = [w \in Workers |-> FALSE]
    /\ disk = [f \in Files |-> NoFile]
    /\ writes = {}
    /\ lastSched = NoSched
    /\ call_parity = 0
    /\ lastSave = [has |-> FALSE, t |-> 0]
    /\ external = FALSE
    /\ restarted = FALSE
    /\ scen = [n |-> 0, saved |-> <<>>]
    /\ _metrics = NoMetrics
    /\ pending = NoMetrics
    /\ ret = NoRet
    /\ op_parity = 0

\* ------------------------------------------------------ the training step
\* Values logged in one go keep the model finite: a log call is due once
\* MaxPending steps have recorded.
MaxPending == 2
\* The clock of Spec stops at StepMaxTime.
StepMaxTime == 2

rejects_never(return_outputs) == FALSE

\* `if return_outputs: raise ValueError(...)`
rejects_outputs(return_outputs) == return_outputs

result_swallowed(raised, loss) == [outcome |-> "returned", exc |-> "", loss |-> loss]

\* self.update_model() then `return loss`: an exception of update_model leaves
\* compute_loss, nothing catches it.
compute_loss_result(raised, loss) ==
    IF raised THEN [outcome |-> "raised", exc |-> "OSError", loss |-> NaN]
    ELSE [outcome |-> "returned", exc |-> "", loss |-> loss]

has_empty_mask(inputs) == \E k \in 1 .. Len(inputs) : mask_count(inputs[k]) = 0

\* The persist failures worth telling apart in a step: none when the step is
\* at a time and in a state where update_model makes no persist call.
StepFailModes ==
    IF branch(now, IF start_train_time[0].has THEN start_train_time[0].val ELSE now,
              get_last_time(disk, peft, now), int_time, start_save[0]) = "none"
    THEN {"none"} ELSE FailModes

\* The `inputs` a compute_loss call may receive.
BatchesFed == IF batch = <<>> THEN StepBatches ELSE {batch}

\* compute_loss(model, inputs, return_outputs) in the single process.
ComputeLoss ==
    /\ \A k \in DOMAIN _metrics : Len(_metrics[k]) < MaxPending
    /\ \E inputs \in BatchesFed :
       \E loss \in {loss_of(inputs, beta)},
          completion_length \in {completion_length_of(inputs)},
          mean_kl \in {mean_kl_of(inputs)},
          empty \in {has_empty_mask(inputs)} :
       \E return_outputs \in BOOLEAN, fail \in StepFailModes :
         IF rejects_outputs(return_outputs)
         THEN /\ ret' = [op |-> "compute_loss", return_outputs |-> return_outputs,
                         empty |-> empty, forwards |-> 0,
                         outcome |-> "raised", exc |-> "ValueError", loss |-> NaN]
              /\ UNCHANGED <<schedVars, _metrics, pending>>
         ELSE /\ _metrics' = record(record(_metrics, "completion_length", completion_length),
                                    "kl", mean_kl)
              /\ pending' = [k \in DOMAIN pending \cup {"completion_length", "kl"} |->
                               Append(IF k \in DOMAIN pending THEN pending[k] ELSE <<>>,
                                      IF k = "kl" THEN mean_kl ELSE completion_length)]
              /\ update_model(0, fail)
              /\ LET r == compute_loss_result(lastSched'.persist.raised, loss)
                 IN  ret' = [op |-> "compute_loss", return_outputs |-> return_outputs,
                             empty |-> empty, forwards |-> 2,
                             outcome |-> r.outcome, exc |-> r.exc, loss |-> r.loss]
    /\ op_parity' = 1 - op_parity
    /\ UNCHANGED <<now, cfgVars, histVars>>

\* The `logs` the Trainer hands to log: its own entries, none of them a
\* metric of this class.
LogsGiven == {NoMetrics, [k \in {"loss"} |-> Frac(0, 1)]}

\* log(logs): the averages are merged into logs, handed to Trainer.log, and
\* the accumulator is cleared.
Log ==
    /\ \E logs \in LogsGiven :
         ret' = [op |-> "log", logs |-> merge(logs, averages(_metrics)), given |-> logs]
    /\ _metrics' = metrics_clear(_metrics)
    /\ pending' = NoMetrics
    /\ op_parity' = 1 - op_parity
    /\ UNCHANGED <<now, cfgVars, schedVars, histVars>>

StepIntTimes == {1}

Init == InitCommon /\ int_time \in StepIntTimes /\ beta = 40 /\ batch = <<>>

TickStep == Tick(StepMaxTime)

Next == TickStep \/ ComputeLoss \/ Log

Spec == Init /\ [][Next]_vars

InitSched == InitCommon /\ int_time \in IntTimes /\ beta = 40 /\ batch = <<>>

NextSched == TickSched \/ UpdateModelCall

SpecSched == InitSched /\ [][NextSched]_vars

\* --------------------------------------------- the environment's actions

\* Something outside the trainer writes the probed artifact.
ExternalWrite ==
    /\ disk' = [disk EXCEPT ![check_path(peft)] = File(now)]
    /\ external' = TRUE
    /\ UNCHANGED <<now, cfgVars, start_train_time, start_save, writes,
                   lastSched, call_parity, lastSave, restarted, scen, stepVars>>

\* Something outside the trainer deletes the probed artifact.
ExternalDelete ==
    /\ disk[check_path(peft)].exists
    /\ disk' = [disk EXCEPT ![check_path(peft)] = NoFile]
    /\ external' = TRUE
    /\ UNCHANGED <<now, cfgVars, start_train_time, start_save, writes,
                   lastSched, call_parity, lastSave, restarted, scen, stepVars>>

\* The training process ends and a new one is started on the same output
\* directory: the attributes set with hasattr-guards are gone, the files stay.
Restart ==
    /\ start_train_time[0].has
    /\ start_train_time' = [start_train_time EXCEPT ![0] = [has |-> FALSE, val |-> 0]]
    /\ start_save' = [start_save EXCEPT ![0] = FALSE]
    /\ restarted' = TRUE
    /\ UNCHANGED <<now, cfgVars, disk, writes, lastSched, call_parity,
                   lastSave, external, scen, stepVars>>

InitEnv == InitCommon /\ int_time \in EnvIntTimes /\ beta = 40 /\ batch = <<>>

NextEnv == TickEnv \/ UpdateModelCall \/ ExternalWrite \/ ExternalDelete \/ Restart

SpecEnv == InitEnv /\ [][NextEnv]_vars

\* The process and its restarts, the output directory left to the trainer.
NextRestart == TickEnv \/ UpdateModelCall \/ Restart

SpecRestart == InitEnv /\ [][NextRestart]_vars

\* ------------------------------------------------ the data-parallel run
\* Every worker runs compute_loss, and so update_model, on its own shard; the
\* output directory is shared.
WorkerUpdateModel ==
    /\ \E w \in Workers : \E fail \in FailModes : update_model(w, fail)
    /\ UNCHANGED <<now, cfgVars, histVars, stepVars>>

NextDP == TickEnv \/ WorkerUpdateModel

SpecDP == InitEnv /\ [][NextDP]_vars

\* ------------------------------------------------ the loss as a function
\* Sequence lengths of the batches of SpecLoss run from 2 to MaxLen.
MaxLen == 3
\* Rows per batch.
BatchSizes == {1, 2}
\* args.beta, in thousandths.
Betas == {0, 40}

\* Single-turn rows: left padding, text, and at most one assistant marker.
SingleTurn(L) ==
    {ids \in LeftPadded(L) : Cardinality({i \in 1 .. L : ids[i] = "assistant"}) <= 1}

\* The rows of SpecLoss: the reference model agrees with the policy at every
\* position, or assigns log-probability 0 where the policy assigns -1.
LossRows(L) ==
    {r \in [ids : SingleTurn(L), advantage : Advantages,
            logps : [1 .. L - 1 -> LogPs], ref_logps : [1 .. L - 1 -> LogPs]] :
        \/ r.ref_logps = r.logps
        \/ \A i \in 1 .. L - 1 : r.logps[i] = -1 /\ r.ref_logps[i] = 0}

LossBatches == UNION {[1 .. n -> LossRows(L)] : n \in BatchSizes, L \in 2 .. MaxLen}

\* One compute_loss call on the batch drawn at the start, full fine-tuning.
InitLoss == InitCommon /\ ~peft /\ int_time \in StepIntTimes /\ beta \in Betas /\ batch \in LossBatches

ComputeLossOnce == ret = NoRet /\ ComputeLoss

NextLoss == ComputeLossOnce

SpecLoss == InitLoss /\ [][NextLoss]_vars

\* ---------------------------------------------------------- properties
\* The step is an update_model call.
IsCall == call_parity' # call_parity
\* The update_model call of this step made a persist call.
Saved == lastSched'.persist.attempts # <<>>
\* get_last_time as the specification words it.
ProbedTime == IF disk[check_path(peft)].exists THEN disk[check_path(peft)].mtime ELSE 0

C1_Rule ==
    /\ start_train_time[0].has => start_train_time'[0] = start_train_time[0]
    /\ IsCall /\ ~start_train_time[0].has =>
           start_train_time'[0] = [has |-> TRUE, val |-> now]
    /\ IsCall /\ ~start_save[0] =>
           /\ Saved <=> now - start_train_time'[0].val > int_time
           /\ start_save'[0] <=> Saved
    /\ IsCall /\ start_save[0] =>
           /\ Saved <=> now - ProbedTime > int_time
           /\ start_save'[0]
    /\ IsCall /\ Saved =>
           Cardinality({i \in DOMAIN lastSched'.persist.attempts :
                          lastSched'.persist.attempts[i] = "save_model"}) = 1

C1_Scenario ==
    /\ scen.n \in 1 .. 4 => scen.saved = SubSeq(<<FALSE, TRUE, FALSE, TRUE>>, 1, scen.n)
    /\ scen.n \in 2 .. 3 => start_save[0] /\ disk[check_path(peft)] = File(11)

\* C1: start_train_time is fixed by the first update_model call; an Idle call
\* at time t saves iff t - start_train_time > interval and that save arms the
\* scheduler; an Armed call saves iff t - mtime(probed artifact) > interval
\* (0 for an absent artifact).  With interval 10 and calls at t = 0, 11, 15,
\* 22: no save, one save (Armed, artifact stamped 11), no save, a save.
C1_Schedule == [][C1_Rule]_vars /\ []C1_Scenario

C1_Witness == scen = [n |-> 4, saved |-> <<FALSE, TRUE, FALSE, TRUE>>]

\* C2: in the data-parallel run only the primary worker writes under the
\* output directory (so no two workers write the same path).
C2_OnlyPrimaryWrites == \A e \in writes : is_primary(e.w)

\* C3: the started-saving flag is set iff a save has been performed, also
\* after a save attempt that failed.
C3_FlagIffSaved == start_save[0] <=> lastSave.has

C4_Rule ==
    IsCall =>
      /\ Cardinality({i \in DOMAIN lastSched'.persist.attempts :
                        lastSched'.persist.attempts[i] = "save_model"}) <= 1
      /\ lastSched'.stamped /\ ~external =>
           /\ now - start_train_time'[0].val > int_time
           /\ lastSave.has => now - lastSave.t > int_time

\* C4: while the probed artifact is written by saves only, a call performs at
\* most one save, a save happens more than one interval after
\* start_train_time, and more than one interval after the save before it.
C4_OneSavePerWindow == [][C4_Rule]_vars

C4_Witness ==
    /\ ~external /\ lastSched.branch = "next" /\ lastSched.stamped /\ lastSched.prevHas

C5_Rule ==
    IsCall /\ restarted /\ disk[check_path(peft)].exists /\ lastSave.has =>
        (Saved <=> now - disk[check_path(peft)].mtime > int_time)

\* C5: after a restart with a saved artifact on disk, a step saves iff
\* now - mtime(artifact) > interval.
C5_RestartUsesMtime == [][C5_Rule]_vars

C7_Rule ==
    IsCall /\ ~disk[check_path(peft)].exists =>
        /\ start_save[0] => Saved
        /\ ~start_save[0] /\ ~(now - start_train_time'[0].val > int_time) => ~Saved

\* C7: an Armed update_model call that finds the probed artifact absent saves
\* in that very step, however recent the previous save; an Idle call that
\* finds it absent saves only when the first-save condition holds.
C7_SelfHealing == [][C7_Rule]_vars

C7_Witness ==
    /\ ~lastSched.idle /\ lastSched.absent /\ lastSched.recent
    /\ lastSched.persist.attempts # <<>>

\* The step is a compute_loss call; a log call.
IsStep == op_parity' # op_parity /\ ret'.op = "compute_loss"
IsLog == op_parity' # op_parity /\ ret'.op = "log"

C6_Rule ==
    IsStep /\ IsCall /\ lastSched'.fail # "none" =>
        /\ ret'.outcome = "raised" /\ ret'.exc = "OSError" /\ IsNaN(ret'.loss)
        /\ \A i, j \in DOMAIN lastSched'.persist.attempts :
               lastSched'.persist.attempts[i] = lastSched'.persist.attempts[j] => i = j
        /\ lastSched'.fail \in {"save_model", "save_model_partial"} =>
               lastSched'.persist.attempts = <<"save_model">>

\* C6: a compute_loss step whose save_model or tokenizer save raises ends in
\* that exception, returns no loss, and makes each persist call at most once,
\* none of them after the one that raised.
C6_PersistFailurePropagates == [][C6_Rule]_vars

C6_Witness ==
    /\ ret.op = "compute_loss" /\ ret.outcome = "raised" /\ ret.exc = "OSError"
    /\ lastSched.fail = "save_pretrained"

\* The mean of a list of values, over a common denominator.
RECURSIVE ProdDen(_)
ProdDen(xs) == IF xs = <<>> THEN 1 ELSE Head(xs).den * ProdDen(Tail(xs))
RECURSIVE NumSum(_, _)
NumSum(xs, D) == IF xs = <<>> THEN 0 ELSE Head(xs).num * (D \div Head(xs).den) + NumSum(Tail(xs), D)
MeanOf(xs) ==
    IF \E i \in DOMAIN xs : IsNaN(xs[i]) THEN NaN
    ELSE Frac(NumSum(xs, ProdDen(xs)), ProdDen(xs) * Len(xs))

C8_Rule ==
    IsLog =>
        /\ DOMAIN ret'.logs \ DOMAIN ret'.given = DOMAIN pending
        /\ \A k \in DOMAIN pending : ret'.logs[k] = MeanOf(pending[k])
        /\ _metrics' = NoMetrics

\* C8: a log call reports, for exactly the names recorded since the previous
\* log call, the mean of exactly the values recorded since then, and leaves
\* the accumulator empty (so a log call right after a log call reports none).
C8_FlushReportsSinceLast == [][C8_Rule]_vars

C8_Witness ==
    /\ ret.op = "log" /\ "kl" \in DOMAIN ret.logs /\ ret.logs["kl"] = Frac(359, 1)
    /\ ret.logs["completion_length"] = Frac(1, 1)

\* C9: a compute_loss call on a batch with a row of zero masked tokens ends in
\* a data-contract error: it returns no loss and records no metric.
C9_EmptyMaskRaises ==
    ret.op = "compute_loss" /\ ret.empty /\ ~ret.return_outputs =>
        ret.outcome = "raised" /\ ret.exc = "DataContractViolation"

C10_Rule ==
    IsStep /\ ret'.return_outputs =>
        /\ ret'.outcome = "raised" /\ ret'.exc = "ValueError" /\ ret'.forwards = 0
        /\ UNCHANGED <<_metrics, start_train_time, start_save, disk, writes, call_parity>>

\* C10: compute_loss with return_outputs=True raises ValueError before any
\* forward pass and changes nothing: not the accumulator, not
\* start_train_time, not the started-saving flag, no file.
C10_ReturnOutputsFailsFast == [][C10_Rule]_vars

C10_Witness ==
    /\ ret.op = "compute_loss" /\ ret.return_outputs /\ ret.exc = "ValueError"
    /\ start_train_time[0].has /\ now - start_train_time[0].val > int_time
    /\ ~start_save[0] /\ DOMAIN _metrics # {}
\* The policy and the reference assign the same log-probability everywhere.
IdenticalLogps(inputs) == \A k \in 1 .. Len(inputs) : inputs[k].logps = inputs[k].ref_logps
EveryRowMasked(inputs) == \A k \in 1 .. Len(inputs) : mask_count(inputs[k]) >= 1

RECURSIVE AdvantageSum(_)
AdvantageSum(inputs) ==
    IF inputs = <<>> THEN 0 ELSE Head(inputs).advantage + AdvantageSum(Tail(inputs))
\* The unweighted batch mean of the negated advantages, in millionths.
NegAdvantageMean(inputs) == Frac(-1000 * AdvantageSum(inputs), Len(inputs))

\* C11: when every row of the batch has a masked token and the policy's and
\* the reference's log-probabilities agree at every position, the loss
\* compute_loss returns is the unweighted batch mean of the negated
\* advantages, whatever beta, the masks and the row lengths are.
C11_IdenticalLogpsLoss ==
    /\ ret # NoRet /\ ret.op = "compute_loss" /\ ret.outcome = "returned"
    /\ batch # <<>> /\ EveryRowMasked(batch) /\ IdenticalLogps(batch)
    => ret.loss = NegAdvantageMean(batch)

\* Advantages [1.0, -1.0] on rows with different mask counts and different
\* padding, non-zero log-probabilities, beta = 0.04: the loss returned is 0.
C11_Witness ==
    /\ ret # NoRet /\ ret.op = "compute_loss" /\ ret.outcome = "returned"
    /\ beta = 40 /\ Len(batch) = 2
    /\ EveryRowMasked(batch) /\ IdenticalLogps(batch)
    /\ batch[1].advantage = 1000 /\ batch[2].advantage = -1000
    /\ mask_count(batch[1]) # mask_count(batch[2])
    /\ batch[1].ids[1] = "pad" /\ batch[2].ids[1] # "pad"
    /\ \E i \in DOMAIN batch[1].logps : batch[1].logps[i] # 0
    /\ ret.loss = Frac(0, 1)
====
